---- MODULE Spec2Model ----
(***************************************************************************)
(* Model of src/app.js: the Gaussian blur / unsharp-mask image filter page. *)
(*                                                                         *)
(* Numbers.  Samples are the integers 0..255 of a Uint8ClampedArray.       *)
(* Sharpen amounts are counted in quarters (amountQ = 4 * amount), for     *)
(* which the double arithmetic of sharpenImage is exact.  Kernel weights   *)
(* are the rationals e[i] / sum with e[i] = round(ExpScale * exp(..)), and *)
(* the two blur passes are carried out exactly on numerators over the      *)
(* denominators sum and sum * sum; the rounding of Float32Array storage is *)
(* not modelled.  NaN is the sentinel for a float that is not a number     *)
(* (an undefined typed-array read, or arithmetic on one).                  *)
(***************************************************************************)
EXTENDS Integers, Sequences, FiniteSets, TLC

\* ------------------------------------------------------------- bounds
MaxWidth == 2
MaxHeight == 2
NumPatterns == 3
MaxRadius == 1
MaxSharpenSteps == 1
NumUploads == 2

\* fixed-point resolution of a kernel weight before normalisation
ExpScale == 2^8
\* resolution of the exponential series
ExpPrecision == 10^3

NaN == -1
Null == [id |-> 0, width |-> 0, height |-> 0, data |-> <<>>]

MAX_DIMENSION == 1400

\* ------------------------------------------------------------ numbers
Max2(a, b) == IF a >= b THEN a ELSE b
Min2(a, b) == IF a <= b THEN a ELSE b

AddF(a, b) == IF a = NaN \/ b = NaN THEN NaN ELSE a + b
MulF(a, b) == IF a = NaN \/ b = NaN THEN NaN ELSE a * b

RECURSIVE SumF(_)
SumF(s) == IF Len(s) = 0 THEN 0 ELSE AddF(Head(s), SumF(Tail(s)))

\* ExpPrecision * exp(num/den), num/den in [0, 10), by its power series
RECURSIVE ExpSeries(_, _, _, _)
ExpSeries(num, den, n, term) ==
  IF term = 0 THEN 0
  ELSE term + ExpSeries(num, den, n + 1, (term * num) \div (den * n))

\* Math.exp(-(num/den)) as a multiple of 1/ExpScale, num >= 0, den > 0
MathExpNeg(num, den) ==
  IF num >= 10 * den THEN 0
  ELSE LET pos == ExpSeries(num, den, 1, ExpPrecision)
       IN  (ExpScale * ExpPrecision + pos \div 2) \div pos

\* conversion of the number num/den (den > 0) stored into a Uint8ClampedArray:
\* NaN becomes 0, otherwise round to nearest, ties to even, clamped to 0..255
ToUint8Clamp(num, den) ==
  IF num = NaN THEN 0
  ELSE IF num <= 0 THEN 0
  ELSE IF num >= 255 * den THEN 255
  ELSE LET q == num \div den
           r == num % den
       IN  IF 2 * r > den THEN q + 1
           ELSE IF 2 * r < den THEN q
           ELSE IF q % 2 = 0 THEN q ELSE q + 1

\* Math.round(n/4): nearest integer, ties towards +infinity
MathRoundQ(n) == (n + 2) \div 4

\* a typed-array read: undefined (NaN in arithmetic) outside the array
Read(data, idx) == IF idx \in DOMAIN data THEN data[idx] ELSE NaN

\* ----------------------------------------------------------- formatKernel
\* sigma = Math.max(0.15, size / 6) as the fraction <<numerator, denominator>>
formatKernel(size) == IF size * 20 >= 18 THEN <<size, 6>> ELSE <<3, 20>>

\* ----------------------------------------------------------- buildKernel
\* The Float32Array(size) is zero-filled; a write at an index outside it is
\* dropped; every entry is divided by sum.  e[j] is entry j before the division.
\* A negative size makes new Float32Array(size) throw a RangeError.
buildKernel(size, sigma) ==
  LET radius == size \div 2
      value(i) == MathExpNeg(i * i * sigma[2] * sigma[2], 2 * sigma[1] * sigma[1])
  IN  [threw  |-> size < 0,
       radius |-> radius,
       length |-> Max2(size, 0),
       e      |-> [j \in 0..(size - 1) |->
                     IF j - radius \in (-radius)..radius THEN value(j - radius) ELSE 0],
       sum    |-> SumF([n \in 1..(2 * radius + 1) |-> value(n - 1 - radius)])]

\* kernel[k + radius] before normalisation: undefined outside the array
KernelWeight(kern, k) == Read(kern.e, k + kern.radius)

\* ----------------------------------------------------------------- clamp
clampNone(value, min, max) == value
clamp(value, min, max) == Max2(min, Min2(max, value))

\* ---------------------------------------------------------- gaussianBlur
\* index of the first sample read by the horizontal pass at (x, y), tap k
BlurHIdx(width, height, x, y, k) ==
  LET px == clamp(x + k, 0, width - 1)
  IN  (y * width + px) * 4

\* index of the first sample read by the vertical pass at (x, y), tap k
BlurVIdx(width, height, x, y, k) ==
  LET py == clamp(y + k, 0, height - 1)
  IN  (py * width + x) * 4

OutIdx(width, x, y) == (y * width + x) * 4

\* pass 1: temp as numerators over kern.sum
BlurPass1(width, height, data, kern) ==
  [o \in 0..(width * height * 4 - 1) |->
     LET c == o % 4
         x == (o \div 4) % width
         y == (o \div 4) \div width
     IN  SumF([n \in 1..(2 * kern.radius + 1) |->
                 LET k == n - 1 - kern.radius
                 IN  MulF(Read(data, BlurHIdx(width, height, x, y, k) + c),
                          KernelWeight(kern, k))])]

\* pass 2: output samples, from numerators over kern.sum * kern.sum
BlurPass2(width, height, temp, kern) ==
  [o \in 0..(width * height * 4 - 1) |->
     LET c == o % 4
         x == (o \div 4) % width
         y == (o \div 4) \div width
     IN  ToUint8Clamp(
           SumF([n \in 1..(2 * kern.radius + 1) |->
                   LET k == n - 1 - kern.radius
                   IN  MulF(Read(temp, BlurVIdx(width, height, x, y, k) + c),
                            KernelWeight(kern, k))]),
           kern.sum * kern.sum)]

\* the result is [threw, image]; the new ImageData takes the identity newId
gaussianBlur(imageData, size, sigma, newId) ==
  LET kern == buildKernel(size, sigma)
  IN  IF kern.threw
      THEN [threw |-> TRUE, image |-> Null]
      ELSE [threw |-> FALSE,
            image |-> [id     |-> newId,
                       width  |-> imageData.width,
                       height |-> imageData.height,
                       data   |-> BlurPass2(imageData.width, imageData.height,
                                    BlurPass1(imageData.width, imageData.height,
                                              imageData.data, kern),
                                    kern)]]

\* ---------------------------------------------------------- sharpenImage
\* index of the neighbour (x + dx, y + dy) read for a channel of pixel (x, y)
SharpenIdx(width, height, x, y, dx, dy) ==
  (clamp(y + dy, 0, height - 1) * width + clamp(x + dx, 0, width - 1)) * 4

\* output[idx + channel] for channel 0..2, amount = amountQ / 4
SharpenSample(width, height, data, x, y, channel, amountQ) ==
  LET center == Read(data, OutIdx(width, x, y) + channel)
      left   == Read(data, SharpenIdx(width, height, x, y, -1, 0) + channel)
      right  == Read(data, SharpenIdx(width, height, x, y, 1, 0) + channel)
      top    == Read(data, SharpenIdx(width, height, x, y, 0, -1) + channel)
      bottom == Read(data, SharpenIdx(width, height, x, y, 0, 1) + channel)
  IN  IF NaN \in {center, left, right, top, bottom}
      THEN 0
      ELSE clamp(MathRoundQ(center * (4 + amountQ * 4)
                            - amountQ * (left + right + top + bottom)), 0, 255)

\* output[idx + 3]
SharpenAlphaDropped(data, idx) == 0
SharpenAlpha(data, idx) == data[idx + 3]

SharpenData(width, height, data, amountQ) ==
  [o \in 0..(width * height * 4 - 1) |->
     LET x == (o \div 4) % width
         y == (o \div 4) \div width
     IN  IF o % 4 = 3
         THEN SharpenAlpha(data, OutIdx(width, x, y))
         ELSE SharpenSample(width, height, data, x, y, o % 4, amountQ)]

sharpenImage(imageData, amountQ, newId) ==
  IF amountQ <= 0 THEN imageData
  ELSE [id     |-> newId,
        width  |-> imageData.width,
        height |-> imageData.height,
        data   |-> SharpenData(imageData.width, imageData.height, imageData.data,
                               amountQ)]

\* --------------------------------------------------------------- inputs
\* sample `channel` of pixel `pix` of test pattern p: 1 uniform gray,
\* 2 black/white checker, 3.. gradients with varying alpha
PatternSample(p, pix, channel) ==
  IF p = 1 THEN (IF channel = 3 THEN 255 ELSE 128)
  ELSE IF p = 2 THEN (IF channel = 3 THEN 255 ELSE ((pix + 1) % 2) * 255)
  ELSE (pix * (53 + 17 * p) + channel * (29 + p) + 11 * p) % 256

\* what getImageData returns for a decoded width x height picture
Picture(width, height, p) ==
  [width |-> width, height |-> height,
   data  |-> [o \in 0..(width * height * 4 - 1) |-> PatternSample(p, o \div 4, o % 4)]]

Pictures ==
  {Picture(w, h, p) : w \in 1..MaxWidth, h \in 1..MaxHeight, p \in 1..NumPatterns}

\* the pictures a user loads into the page: the non-uniform patterns, full size
Uploads == {Picture(MaxWidth, MaxHeight, p) : p \in 2..(NumUploads + 1)}

\* ---------------------------------------------------------------- state
VARIABLES
  originalImageData,   \* let originalImageData (Null before the first load)
  currentImageData,    \* let currentImageData
  isProcessing,        \* let isProcessing
  kernelSizeValue,     \* kernelSize.value, as Number() reads it
  sharpenAmountValue,  \* sharpenAmount.value, in quarters
  rafQueue,            \* callbacks handed to requestAnimationFrame, oldest first
  statusText,          \* statusEl.textContent
  sourceCanvas,        \* samples shown by sourceCanvas (<<>>: the empty fill)
  outputCanvas,        \* samples shown by outputCanvas (<<>>: the empty fill)
  labels,              \* kernelLabel, sigmaLabel, sharpenLabel, pixelLabel
  lastEvent,           \* history: the handler that ran last and what it read
  call                 \* the filter call or sample access under study

vars ==
  <<originalImageData, currentImageData, isProcessing, kernelSizeValue,
    sharpenAmountValue, rafQueue, statusText, sourceCanvas, outputCanvas,
    labels, lastEvent, call>>

KernelSizes == {2 * r + 1 : r \in 0..MaxRadius}
\* the sharpen slider moves in steps of 0.5
SharpenAmounts == {2 * n : n \in 0..MaxSharpenSteps}

NoCall == [fn |-> "none"]

State ==
  [originalImageData  |-> originalImageData,
   currentImageData   |-> currentImageData,
   isProcessing       |-> isProcessing,
   kernelSizeValue    |-> kernelSizeValue,
   sharpenAmountValue |-> sharpenAmountValue,
   rafQueue           |-> rafQueue,
   statusText         |-> statusText,
   sourceCanvas       |-> sourceCanvas,
   outputCanvas       |-> outputCanvas,
   labels             |-> labels,
   lastEvent          |-> lastEvent]

Commit(s) ==
  /\ originalImageData' = s.originalImageData
  /\ currentImageData' = s.currentImageData
  /\ isProcessing' = s.isProcessing
  /\ kernelSizeValue' = s.kernelSizeValue
  /\ sharpenAmountValue' = s.sharpenAmountValue
  /\ rafQueue' = s.rafQueue
  /\ statusText' = s.statusText
  /\ sourceCanvas' = s.sourceCanvas
  /\ outputCanvas' = s.outputCanvas
  /\ labels' = s.labels
  /\ lastEvent' = s.lastEvent

\* an identity no live ImageData of `used` carries
FreshId(used) == CHOOSE i \in 1..(Cardinality(used) + 1) :
                   /\ i \notin used
                   /\ \A j \in 1..(i - 1) : j \in used

\* what a handler leaves in lastEvent: its name, the parameters runFilter
\* read (or the callback had captured), and the guard's inputs on entry
Event(kind, s) ==
  [kind |-> kind, size |-> s.kernelSizeValue, sharpen |-> s.sharpenAmountValue,
   hadImage |-> s.originalImageData # Null, wasProcessing |-> s.isProcessing]

\* ------------------------------------------------------------- runFilter
\* the synchronous part of runFilter, lines 227-243 and the scheduling of 244
runFilterUnguarded(s) ==
  IF s.originalImageData = Null THEN s
  ELSE LET size == s.kernelSizeValue
           sigma == formatKernel(size)
           sharpen == s.sharpenAmountValue
           t == [s EXCEPT !.labels.kernel = size, !.labels.sigma = sigma,
                          !.labels.sharpen = sharpen]
       IN  IF size <= 1 /\ sharpen <= 0
           THEN [t EXCEPT !.outputCanvas = s.originalImageData.data,
                          !.currentImageData = s.originalImageData]
           ELSE [t EXCEPT !.isProcessing = TRUE,
                          !.statusText = "Filtering...",
                          !.rafQueue = Append(@, [size |-> size, sigma |-> sigma,
                                                  sharpen |-> sharpen])]

runFilterStrictSharpen(s) ==
  IF s.originalImageData = Null \/ s.isProcessing THEN s
  ELSE LET size == s.kernelSizeValue
           sigma == formatKernel(size)
           sharpen == s.sharpenAmountValue
           t == [s EXCEPT !.labels.kernel = size, !.labels.sigma = sigma,
                          !.labels.sharpen = sharpen]
       IN  IF size <= 1 /\ sharpen < 0
           THEN [t EXCEPT !.outputCanvas = s.originalImageData.data,
                          !.currentImageData = s.originalImageData]
           ELSE [t EXCEPT !.isProcessing = TRUE,
                          !.statusText = "Filtering...",
                          !.rafQueue = Append(@, [size |-> size, sigma |-> sigma,
                                                  sharpen |-> sharpen])]

runFilterKeepsOutput(s) ==
  IF s.originalImageData = Null \/ s.isProcessing THEN s
  ELSE LET size == s.kernelSizeValue
           sigma == formatKernel(size)
           sharpen == s.sharpenAmountValue
           t == [s EXCEPT !.labels.kernel = size, !.labels.sigma = sigma,
                          !.labels.sharpen = sharpen]
       IN  IF size <= 1 /\ sharpen <= 0
           THEN [t EXCEPT !.outputCanvas = s.originalImageData.data]
           ELSE [t EXCEPT !.isProcessing = TRUE,
                          !.statusText = "Filtering...",
                          !.rafQueue = Append(@, [size |-> size, sigma |-> sigma,
                                                  sharpen |-> sharpen])]

runFilter(s) ==
  IF s.originalImageData = Null \/ s.isProcessing THEN s
  ELSE LET size == s.kernelSizeValue
           sigma == formatKernel(size)
           sharpen == s.sharpenAmountValue
           t == [s EXCEPT !.labels.kernel = size, !.labels.sigma = sigma,
                          !.labels.sharpen = sharpen]
       IN  IF size <= 1 /\ sharpen <= 0
           THEN [t EXCEPT !.outputCanvas = s.originalImageData.data,
                          !.currentImageData = s.originalImageData]
           ELSE [t EXCEPT !.isProcessing = TRUE,
                          !.statusText = "Filtering...",
                          !.rafQueue = Append(@, [size |-> size, sigma |-> sigma,
                                                  sharpen |-> sharpen])]

\* ------------------------------------- the requestAnimationFrame callback
\* Lines 244-258 for the captured c = [size, sigma, sharpen].  `fault` names the
\* step the environment makes throw (an allocation that fails, a canvas write
\* that is refused), "none" for a run nothing interrupts; "blur" and "sharpen"
\* are given only to a run that takes that step.  `source` is the buffer the
\* run filters, `sharpenOriginal` hands the sharpen stage the source instead of
\* the blur's result, `earlyAssign` stores the blur's result before the sharpen
\* stage, `releaseOnThrow` is the finally block.
RunStages(s, c, fault, source, sharpenOriginal, earlyAssign, releaseOnThrow) ==
  LET blurCall == gaussianBlur(source, c.size, c.sigma,
                               FreshId({s.originalImageData.id, s.currentImageData.id}))
      blurThrew == fault = "blur" \/ (fault = "none" /\ c.size > 1 /\ blurCall.threw)
      blurred == IF c.size > 1 THEN blurCall.image ELSE source
      sharpenThrew == fault = "sharpen"
      filtered == IF c.sharpen > 0
                  THEN sharpenImage(IF sharpenOriginal THEN source ELSE blurred, c.sharpen,
                                    FreshId({s.originalImageData.id, s.currentImageData.id,
                                             blurred.id}))
                  ELSE blurred
      putThrew == fault = "put"
      threw == blurThrew \/ sharpenThrew \/ putThrew
      ev == [kind |-> IF threw THEN "rafFailed" ELSE "rafDone",
             size |-> c.size, sharpen |-> c.sharpen,
             hadImage |-> TRUE, wasProcessing |-> s.isProcessing]
  IN  IF threw
      THEN [s EXCEPT
              !.statusText = "Filtering failed. Try smaller settings.",
              !.currentImageData = IF earlyAssign /\ ~blurThrew THEN blurred ELSE @,
              !.isProcessing = IF releaseOnThrow THEN FALSE ELSE @,
              !.lastEvent = ev]
      ELSE [s EXCEPT
              !.outputCanvas = filtered.data,
              !.currentImageData = filtered,
              !.statusText = "Filter applied.",
              !.isProcessing = FALSE,
              !.lastEvent = ev]

rafCallbackFromCurrent(s, c, fault) ==
  RunStages(s, c, fault, s.currentImageData, FALSE, FALSE, TRUE)
rafCallbackSharpenOriginal(s, c, fault) ==
  RunStages(s, c, fault, s.originalImageData, TRUE, FALSE, TRUE)
rafCallbackEarlyAssign(s, c, fault) ==
  RunStages(s, c, fault, s.originalImageData, FALSE, TRUE, TRUE)
rafCallbackNoFinally(s, c, fault) ==
  RunStages(s, c, fault, s.originalImageData, FALSE, FALSE, FALSE)
rafCallback(s, c, fault) ==
  RunStages(s, c, fault, s.originalImageData, FALSE, FALSE, TRUE)

\* -------------------------------------------------------------- handlers
\* img.onload -> applyImage(img), for a picture no larger than MAX_DIMENSION
\* (scale = 1): pic is what getImageData returns once it is drawn
applyImage(s, pic) ==
  LET image == [id |-> FreshId({}), width |-> pic.width, height |-> pic.height,
                data |-> pic.data]
      t == [s EXCEPT !.sourceCanvas = pic.data,
                     !.originalImageData = image,
                     !.currentImageData = image,
                     !.outputCanvas = pic.data,
                     !.labels.pixel = <<pic.width, pic.height>>,
                     !.statusText = "Image loaded."]
  IN  runFilter([t EXCEPT !.lastEvent = Event("applyImage", t)])

ApplyImage ==
  \E pic \in Uploads :
    /\ Max2(pic.width, pic.height) <= MAX_DIMENSION
    /\ \E s \in {applyImage(State, pic)} : Commit(s)
    /\ UNCHANGED call

\* kernelSize 'input' listener: the slider moved to value v
KernelSizeInput ==
  \E v \in KernelSizes \ {kernelSizeValue} :
    LET t == [State EXCEPT !.kernelSizeValue = v, !.labels.kernel = v,
                           !.labels.sigma = formatKernel(v)]
    IN  /\ \E s \in {runFilter([t EXCEPT !.lastEvent = Event("kernelSize", t)])} : Commit(s)
        /\ UNCHANGED call

\* sharpenAmount 'input' listener: the slider moved to value v
SharpenAmountInput ==
  \E v \in SharpenAmounts \ {sharpenAmountValue} :
    LET t == [State EXCEPT !.sharpenAmountValue = v, !.labels.sharpen = v]
    IN  /\ \E s \in {runFilter([t EXCEPT !.lastEvent = Event("sharpenAmount", t)])} : Commit(s)
        /\ UNCHANGED call

\* resetBtn 'click' listener
ResetClick ==
  LET t == [State EXCEPT !.kernelSizeValue = 1, !.sharpenAmountValue = 0,
                         !.labels.kernel = 1, !.labels.sigma = formatKernel(1),
                         !.labels.sharpen = 0]
  IN  /\ \E s \in {runFilter([t EXCEPT !.lastEvent = Event("reset", t)])} : Commit(s)
      /\ UNCHANGED call

\* the browser takes the oldest pending animation-frame callback off its
\* list and runs it; a step of the run may throw (only a step the run takes),
\* or none does
AnimationFrame ==
  /\ rafQueue # <<>>
  /\ rafQueue' = Tail(rafQueue)
  /\ LET taken == [State EXCEPT !.rafQueue = Tail(@)]
     IN  \/ \E fault \in {"put", "blur", "sharpen"} :
              /\ fault = "blur" => Head(rafQueue).size > 1
              /\ fault = "sharpen" => Head(rafQueue).sharpen > 0
              /\ \E s \in {rafCallback(taken, Head(rafQueue), fault)} : Commit(s)
         \/ \E s \in {rafCallback(taken, Head(rafQueue), "none")} : Commit(s)
  /\ UNCHANGED call

\* lines 19-21 and 303-306: nothing loaded, the sliders at any of their values
Init ==
  /\ originalImageData = Null
  /\ currentImageData = Null
  /\ isProcessing = FALSE
  /\ kernelSizeValue \in KernelSizes
  /\ sharpenAmountValue \in SharpenAmounts
  /\ rafQueue = <<>>
  /\ statusText = ""
  /\ sourceCanvas = <<>>
  /\ outputCanvas = <<>>
  /\ labels = [kernel |-> kernelSizeValue, sigma |-> formatKernel(kernelSizeValue),
               sharpen |-> sharpenAmountValue, pixel |-> <<0, 0>>]
  /\ lastEvent = [kind |-> "pageLoad", size |-> kernelSizeValue,
                  sharpen |-> sharpenAmountValue, hadImage |-> FALSE,
                  wasProcessing |-> FALSE]
  /\ call = NoCall

Next ==
  \/ ApplyImage
  \/ KernelSizeInput
  \/ SharpenAmountInput
  \/ ResetClick
  \/ AnimationFrame

Spec == Init /\ [][Next]_vars

\* the scheduled animation-frame callback eventually fires
LiveSpec == Spec /\ WF_vars(AnimationFrame)

\* ------------------------------------------- the filters taken alone
\* One call of gaussianBlur or sharpenImage on the picture held in
\* originalImageData, or one sample access of their loops, recorded in `call`.
FilterSizes == (-1)..(2 * MaxRadius + 1)
FilterAmounts == (-2)..(2 * MaxSharpenSteps + 1)
FilterSigmas(size) == {formatKernel(size), <<3, 20>>, <<1, 1>>, <<5, 2>>}

CallGaussianBlur ==
  /\ call = NoCall
  /\ \E size \in FilterSizes : \E sigma \in FilterSigmas(size) :
       \E r \in {gaussianBlur(originalImageData, size, sigma, 2)} :
         call' = [fn |-> "gaussianBlur", size |-> size, sigma |-> sigma,
                  threw |-> r.threw, data |-> r.image.data]
  /\ UNCHANGED <<originalImageData, currentImageData, isProcessing, kernelSizeValue,
                 sharpenAmountValue, rafQueue, statusText, sourceCanvas, outputCanvas,
                 labels, lastEvent>>

CallSharpenImage ==
  /\ call = NoCall
  /\ \E amountQ \in FilterAmounts :
       \E r \in {sharpenImage(originalImageData, amountQ, 2)} :
         call' = [fn |-> "sharpenImage", amountQ |-> amountQ,
                  sameObject |-> r.id = originalImageData.id, data |-> r.data]
  /\ UNCHANGED <<originalImageData, currentImageData, isProcessing, kernelSizeValue,
                 sharpenAmountValue, rafQueue, statusText, sourceCanvas, outputCanvas,
                 labels, lastEvent>>

\* lines 151-154 and 162 (pass "h"), 177-180 and 188 (pass "v"): tap k at (x, y)
BlurAccess ==
  /\ call = NoCall
  /\ \E size \in FilterSizes \ {-1} : \E pass \in {"h", "v"} :
       \E x \in 0..(originalImageData.width - 1) :
         \E y \in 0..(originalImageData.height - 1) :
           \E k \in (-(size \div 2))..(size \div 2) :
             call' = [fn |-> "blurAccess", pass |-> pass, size |-> size,
                      x |-> x, y |-> y, k |-> k,
                      kernelIdx |-> k + buildKernel(size, formatKernel(size)).radius,
                      readIdx |-> IF pass = "h"
                                  THEN BlurHIdx(originalImageData.width,
                                                originalImageData.height, x, y, k)
                                  ELSE BlurVIdx(originalImageData.width,
                                                originalImageData.height, x, y, k),
                      writeIdx |-> OutIdx(originalImageData.width, x, y)]
  /\ UNCHANGED <<originalImageData, currentImageData, isProcessing, kernelSizeValue,
                 sharpenAmountValue, rafQueue, statusText, sourceCanvas, outputCanvas,
                 labels, lastEvent>>

\* lines 207-220: the neighbour (x + dx, y + dy) of pixel (x, y)
SharpenAccess ==
  /\ call = NoCall
  /\ \E x \in 0..(originalImageData.width - 1) :
       \E y \in 0..(originalImageData.height - 1) :
         \E d \in {<<0, 0>>, <<-1, 0>>, <<1, 0>>, <<0, -1>>, <<0, 1>>} :
           call' = [fn |-> "sharpenAccess", x |-> x, y |-> y, dx |-> d[1], dy |-> d[2],
                    readIdx |-> SharpenIdx(originalImageData.width,
                                           originalImageData.height, x, y, d[1], d[2]),
                    writeIdx |-> OutIdx(originalImageData.width, x, y)]
  /\ UNCHANGED <<originalImageData, currentImageData, isProcessing, kernelSizeValue,
                 sharpenAmountValue, rafQueue, statusText, sourceCanvas, outputCanvas,
                 labels, lastEvent>>

FilterInit ==
  /\ \E pic \in Pictures :
       originalImageData = [id |-> 1, width |-> pic.width, height |-> pic.height,
                            data |-> pic.data]
  /\ currentImageData = originalImageData
  /\ isProcessing = FALSE
  /\ kernelSizeValue = 1
  /\ sharpenAmountValue = 0
  /\ rafQueue = <<>>
  /\ statusText = ""
  /\ sourceCanvas = originalImageData.data
  /\ outputCanvas = originalImageData.data
  /\ labels = [kernel |-> 1, sigma |-> formatKernel(1), sharpen |-> 0,
               pixel |-> <<originalImageData.width, originalImageData.height>>]
  /\ lastEvent = [kind |-> "pageLoad", size |-> 1, sharpen |-> 0, hadImage |-> FALSE,
                  wasProcessing |-> FALSE]
  /\ call = NoCall

FilterNext ==
  \/ CallGaussianBlur
  \/ CallSharpenImage
  \/ BlurAccess
  \/ SharpenAccess

FilterSpec == FilterInit /\ [][FilterNext]_vars

\* ================================================================ claims
FilteringFailed == "Filtering failed. Try smaller settings."
FilterApplied == "Filter applied."

\* a parameter change or a reset click: a handler that only calls runFilter
ParameterRequest == KernelSizeInput \/ SharpenAmountInput \/ ResetClick

\* the two stages as the specification words them, on the samples alone
BlurStage(image, size) ==
  IF size > 1
  THEN gaussianBlur(image, size,
                    IF 20 * size >= 3 * 6 THEN <<size, 6>> ELSE <<3, 20>>, 0).image
  ELSE image
SharpenStage(image, sharpen) ==
  IF sharpen > 0 THEN sharpenImage(image, sharpen, 0) ELSE image
Pipeline(image, size, sharpen) ==
  IF size <= 1 /\ sharpen <= 0 THEN image
  ELSE SharpenStage(BlurStage(image, size), sharpen)

Quiescent ==
  /\ originalImageData # Null
  /\ ~isProcessing
  /\ rafQueue = <<>>
  /\ lastEvent.kind # "rafFailed"

\* ---------------------------------------------------------------- C1
\* C1: a request that arrives while isProcessing is set is dropped: a
\* parameter change or reset leaves originalImageData, currentImageData,
\* isProcessing and the callback queue as they were, and an image load in
\* flight changes only what applyImage itself assigns; at most one callback
\* is ever pending, and isProcessing holds exactly when one is.
ReentrancyGuard ==
  /\ [](Len(rafQueue) <= 1 /\ (isProcessing <=> Len(rafQueue) = 1))
  /\ [][/\ (isProcessing /\ ParameterRequest) =>
              UNCHANGED <<originalImageData, currentImageData, isProcessing, rafQueue>>
        /\ (isProcessing /\ ApplyImage) =>
              /\ UNCHANGED <<isProcessing, rafQueue>>
              /\ currentImageData' = originalImageData']_vars

RequestDroppedInFlight ==
  /\ isProcessing
  /\ Len(rafQueue) = 1
  /\ lastEvent.kind \in {"kernelSize", "sharpenAmount", "reset"}
  /\ lastEvent.wasProcessing
  /\ <<lastEvent.size, lastEvent.sharpen>> # <<rafQueue[1].size, rafQueue[1].sharpen>>

\* ---------------------------------------------------------------- C2
\* C2 as claimed: every runFilter call with an image loaded and
\* kernelSize <= 1, sharpenAmount <= 0 leaves currentImageData and the
\* displayed samples equal to the original buffer itself and schedules nothing.
FastPathOnEveryRequest ==
  [][((ParameterRequest \/ ApplyImage)
        /\ originalImageData' # Null
        /\ kernelSizeValue' <= 1 /\ sharpenAmountValue' <= 0) =>
       /\ currentImageData' = originalImageData'
       /\ outputCanvas' = originalImageData'.data
       /\ rafQueue' = rafQueue]_vars

\* C2 amended: the same, for a runFilter call made while no run is in progress.
FastPathWhenIdle ==
  [][((ParameterRequest \/ ApplyImage)
        /\ ~isProcessing
        /\ originalImageData' # Null
        /\ kernelSizeValue' <= 1 /\ sharpenAmountValue' <= 0) =>
       /\ currentImageData' = originalImageData'
       /\ ParameterRequest => originalImageData' = originalImageData
       /\ outputCanvas' = originalImageData'.data
       /\ rafQueue' = rafQueue
       /\ rafQueue' = <<>>
       /\ ~isProcessing']_vars

ResetRestoredOriginal ==
  /\ lastEvent.kind = "reset"
  /\ lastEvent.hadImage
  /\ ~lastEvent.wasProcessing
  /\ statusText = FilterApplied
  /\ currentImageData = originalImageData
  /\ outputCanvas = originalImageData.data

\* ---------------------------------------------------------------- C3
\* C3: a callback never changes originalImageData; one that throws leaves
\* currentImageData and the displayed samples as they were and reports the
\* failure in the status line; one that does not throw leaves a complete
\* buffer: the original's dimensions, every sample present and in 0..255.
FailureKeepsOutput ==
  [][AnimationFrame =>
       /\ originalImageData' = originalImageData
       /\ statusText' \in {FilteringFailed, FilterApplied}
       /\ statusText' = FilteringFailed =>
            /\ currentImageData' = currentImageData
            /\ outputCanvas' = outputCanvas
       /\ statusText' = FilterApplied =>
            /\ currentImageData'.width = originalImageData.width
            /\ currentImageData'.height = originalImageData.height
            /\ DOMAIN currentImageData'.data =
                 0..(originalImageData.width * originalImageData.height * 4 - 1)
            /\ \A o \in DOMAIN currentImageData'.data :
                 currentImageData'.data[o] \in 0..255
            /\ currentImageData'.data =
                 Pipeline(originalImageData, Head(rafQueue).size,
                          Head(rafQueue).sharpen).data
            /\ outputCanvas' = currentImageData'.data]_vars

FailedRunKeptFilteredOutput ==
  /\ lastEvent.kind = "rafFailed"
  /\ statusText = FilteringFailed
  /\ currentImageData.id # originalImageData.id
  /\ currentImageData.data # originalImageData.data
  /\ outputCanvas = currentImageData.data

\* ---------------------------------------------------------------- C4
\* C4: a deferred run that completes assigns sharpenStage(blurStage(original)):
\* the blur, with the captured sigma = max(0.15, size/6), runs only for
\* size > 1, and the sharpen runs on the blur stage's result only for
\* sharpen > 0.
StageOrder ==
  [][(AnimationFrame /\ statusText' = FilterApplied) =>
       LET c == Head(rafQueue)
           sigma == IF 20 * c.size >= 3 * 6 THEN <<c.size, 6>> ELSE <<3, 20>>
           blurred == IF c.size > 1
                      THEN gaussianBlur(originalImageData, c.size, sigma, 0).image
                      ELSE originalImageData
           filtered == IF c.sharpen > 0 THEN sharpenImage(blurred, c.sharpen, 0)
                       ELSE blurred
       IN  /\ c.sigma = sigma
           /\ ~(c.size <= 1 /\ c.sharpen <= 0)
           /\ currentImageData'.data = filtered.data]_vars

BlurThenSharpenRan ==
  /\ lastEvent.kind = "rafDone"
  /\ lastEvent.size > 1
  /\ lastEvent.sharpen > 0
  /\ currentImageData.data # originalImageData.data
  /\ currentImageData.data #
       sharpenImage(originalImageData, lastEvent.sharpen, 0).data
  /\ currentImageData.data # BlurStage(originalImageData, lastEvent.size).data

\* ---------------------------------------------------------------- C5
\* C5: gaussianBlur called with a size <= 1 (1, 0 or negative) and any
\* sigma > 0 returns a buffer whose every sample equals the input's.
BlurIdentityUpToSizeOne ==
  (call.fn = "gaussianBlur" /\ call.size <= 1) =>
     /\ ~call.threw
     /\ call.data = originalImageData.data

\* ---------------------------------------------------------------- C6
\* C6: for every buffer and every amount, positive, zero or negative, each
\* pixel's alpha sample in sharpenImage's result is the input's.
SharpenKeepsAlpha ==
  call.fn = "sharpenImage" =>
    /\ DOMAIN call.data = DOMAIN originalImageData.data
    /\ \A pix \in 0..(originalImageData.width * originalImageData.height - 1) :
         call.data[pix * 4 + 3] = originalImageData.data[pix * 4 + 3]

SharpenedTranslucentPicture ==
  /\ call.fn = "sharpenImage"
  /\ call.amountQ > 0
  /\ ~call.sameObject
  /\ call.data # originalImageData.data
  /\ \E pix \in 0..(originalImageData.width * originalImageData.height - 1) :
       originalImageData.data[pix * 4 + 3] \notin {0, 255}

Nearest(v, n) == IF v < 0 THEN 0 ELSE IF v > n - 1 THEN n - 1 ELSE v

ClampToEdge ==
  LET w == originalImageData.width
      h == originalImageData.height
      InBuffer(idx) == idx >= 0 /\ idx + 3 <= w * h * 4 - 1
  IN  /\ (call.fn = "blurAccess" /\ call.size >= 1 /\ call.size % 2 = 1) =>
           /\ call.kernelIdx \in 0..(call.size - 1)
           /\ InBuffer(call.readIdx)
           /\ InBuffer(call.writeIdx)
           /\ call.pass = "h" =>
                call.readIdx = (call.y * w + Nearest(call.x + call.k, w)) * 4
           /\ call.pass = "v" =>
                call.readIdx = (Nearest(call.y + call.k, h) * w + call.x) * 4
      /\ call.fn = "sharpenAccess" =>
           /\ InBuffer(call.readIdx)
           /\ InBuffer(call.writeIdx)
           /\ call.readIdx =
                (Nearest(call.y + call.dy, h) * w + Nearest(call.x + call.dx, w)) * 4

EdgeTapOnOnePixelAxis ==
  /\ call.fn = "blurAccess"
  /\ call.size >= 3 /\ call.size % 2 = 1
  /\ call.pass = "h"
  /\ originalImageData.width = 1
  /\ originalImageData.height > 1
  /\ call.y > 0
  /\ call.k = -(call.size \div 2)
  /\ call.readIdx = call.writeIdx

\* ---------------------------------------------------------------- C9
\* C9: if the pending callback eventually fires, isProcessing set leads to
\* isProcessing cleared, whether the run completed or threw; and a parameter
\* change made while isProcessing is clear is taken: the fast path, or a new
\* callback carrying the changed parameters.
GuardReleased ==
  /\ isProcessing ~> ~isProcessing
  /\ [][(~isProcessing /\ originalImageData # Null
           /\ (KernelSizeInput \/ SharpenAmountInput)) =>
          IF kernelSizeValue' <= 1 /\ sharpenAmountValue' <= 0
          THEN /\ ~isProcessing'
               /\ currentImageData' = originalImageData
          ELSE /\ isProcessing'
               /\ Len(rafQueue') = 1
               /\ rafQueue'[1].size = kernelSizeValue'
               /\ rafQueue'[1].sharpen = sharpenAmountValue']_vars

ReleasedAfterThrow ==
  /\ lastEvent.kind = "rafFailed"
  /\ lastEvent.wasProcessing
  /\ ~isProcessing
  /\ rafQueue = <<>>

\* --------------------------------------------------------------- C10
\* C10 as claimed: in every quiescent state currentImageData is the pipeline's
\* result for originalImageData and the values the two controls hold.
QuiescentMatchesControls ==
  Quiescent =>
    currentImageData.data =
      Pipeline(originalImageData, kernelSizeValue, sharpenAmountValue).data

\* C10 amended: in every quiescent state currentImageData is the pipeline's
\* result for originalImageData and the parameters of the last request that
\* was taken (the ones its run, or the fast path, used).
QuiescentMatchesLastTakenRequest ==
  Quiescent =>
    /\ lastEvent.kind \in {"rafDone", "applyImage", "kernelSize", "sharpenAmount", "reset"}
    /\ lastEvent.kind # "rafDone" =>
         <<lastEvent.size, lastEvent.sharpen>> = <<kernelSizeValue, sharpenAmountValue>>
    /\ currentImageData.data =
         Pipeline(originalImageData, lastEvent.size, lastEvent.sharpen).data

QuiescentAfterDroppedChange ==
  /\ Quiescent
  /\ lastEvent.kind = "rafDone"
  /\ <<lastEvent.size, lastEvent.sharpen>> # <<kernelSizeValue, sharpenAmountValue>>
  /\ currentImageData.data # originalImageData.data

====
